---- MODULE Spec2Model ----
(***************************************************************************)
(* The go_theory generator scripts as one state machine.                   *)
(*                                                                         *)
(* A run is one Python process: `script` is the module that runs, `entry`  *)
(* says whether the module is run as a script ("main") or whether its      *)
(* writer function is called directly on arbitrary arguments ("call").     *)
(* The state is the file system the process sees (dirs, files), its        *)
(* working directory, what it has printed (out), its position (pc, and    *)
(* wpc inside the writer function) and how it ended (status, exc).         *)
(* visited counts the passes FINAL_GENERATOR's scan has made, nruns the    *)
(* runs of the script made in a row on the same file system; dirs0 and     *)
(* files0 are the file system at the start of the run.                     *)
(*                                                                         *)
(* Strings the code inspects are sequences of symbols: a digit or '_' is   *)
(* one symbol, a word no code looks into (a topic name, "basic") is one    *)
(* symbol.  A path string is a sequence of components, each a string; an   *)
(* absolute path starts with the component Root.  A key of the file system *)
(* is the sequence of components from the file-system root.                *)
(***************************************************************************)
EXTENDS Integers, Sequences, FiniteSets, TLC

VARIABLES script, entry, nruns, pc, status, exc, cwd, dirs, files, dirs0, files0,
          out, wlog, mkcalls, wpc, wpath, wcontent, wcalls, ncalls,
          importable, i, lv, existing, visited, topics, ti

vars == <<script, entry, nruns, pc, status, exc, cwd, dirs, files, dirs0, files0,
          out, wlog, mkcalls, wpc, wpath, wcontent, wcalls, ncalls,
          importable, i, lv, existing, visited, topics, ti>>

fsVars == <<dirs, files, wlog, mkcalls>>
scanVars == <<importable, i, lv, existing, visited>>
topicVars == <<topics, ti>>
callVars == <<wpc, wpath, wcontent, wcalls>>
runVars == <<script, entry, nruns, cwd, dirs0, files0>>

----------------------------------------------------------------------------
(* Bounds of the model.                                                    *)

\* how many times in a row generate_comprehensive_theory.py is run
MaxRuns == 2

\* how many calls of the writer a direct-call run makes
MaxCalls == 2

----------------------------------------------------------------------------
(* Strings and paths.                                                      *)

\* a one-symbol string
N(s) == <<s>>

\* the first component of an absolute path string
Root == <<"/">>

IsAbs(p) == Len(p) > 0 /\ p[1] = Root

\* str.startswith
StartsWith(s, prefix) ==
    Len(s) >= Len(prefix) /\ SubSeq(s, 1, Len(prefix)) = prefix

\* os.path.dirname: everything before the last component ('' for a bare name)
dirname(p) == SubSeq(p, 1, Len(p) - 1)

\* os.path.join of a path and one more relative component
join(p, c) == Append(p, c)

\* the key a path string names, relative paths being resolved against cwd
Resolve(c, p) == IF IsAbs(p) THEN Tail(p) ELSE c \o p

\* os.getcwd(): the absolute path string of the working directory
getcwd(c) == <<Root>> \o c

\* a key and all its ancestors, the file-system root included
Prefixes(k) == { SubSeq(k, 1, n) : n \in 0..Len(k) }

\* the proper prefixes of a content: what a failed write can leave behind
ProperPrefixes(c) == { SubSeq(c, 1, n) : n \in 0..(Len(c) - 1) }

----------------------------------------------------------------------------
(* The file system.                                                        *)

\* a regular file exists at key k
IsFile(f, k) == k \in DOMAIN f

\* os.path.exists
exists(d, f, k) == k \in d \/ IsFile(f, k)

\* os.makedirs(name) without exist_ok=True: the target must not exist
MakedirsAllowedNew(f, c, name) ==
    /\ name # <<>>
    /\ Prefixes(Resolve(c, name)) \cap DOMAIN f = {}
    /\ Resolve(c, name) \notin dirs

\* os.makedirs(name, exist_ok=True) can succeed: name is not '', and neither
\* the target nor one of its ancestors is a regular file
MakedirsAllowed(f, c, name) ==
    /\ name # <<>>
    /\ Prefixes(Resolve(c, name)) \cap DOMAIN f = {}

\* the directories after a successful os.makedirs of key k
MakedirsResult(d, k) == d \cup Prefixes(k)

\* the directories after an os.makedirs of key k that failed after creating
\* the ancestors down to depth n
MakedirsPartial(d, k, n) == d \cup Prefixes(SubSeq(k, 1, n))

\* open(path, 'w') can succeed: the path is not a directory, its parent is one
OpenAllowed(d, f, k) ==
    /\ k \notin d
    /\ Len(k) > 0
    /\ SubSeq(k, 1, Len(k) - 1) \in d

\* open(path, 'a') in place of open(path, 'w'): what the file holds is kept
OpenAppend(f, k) == [x \in DOMAIN f \cup {k} |-> IF x \in DOMAIN f THEN f[x] ELSE <<>>]

\* the files after open(path, 'w'): the file exists and is empty
OpenW(f, k) == [x \in DOMAIN f \cup {k} |-> IF x = k THEN <<>> ELSE f[x]]

\* the files after f.write(content) and the close at the end of the with block
WriteAll(f, k, content) == [f EXCEPT ![k] = f[k] \o content]

\* a file system is well formed
FsOk(d, f) ==
    /\ <<>> \in d
    /\ \A k \in d : Prefixes(k) \subseteq d
    /\ \A k \in DOMAIN f : k \notin d /\ Prefixes(SubSeq(k, 1, Len(k) - 1)) \subseteq d

----------------------------------------------------------------------------
(* Exceptions and termination.                                             *)

\* a printed line: which line of the script it is, and what is formatted into it
Msg(line, arg) == [line |-> line, arg |-> arg]

NoExc == [type |-> "none", at |-> "none"]

\* an exception no handler catches ends the process with a traceback
Uncaught(type, at) ==
    /\ exc' = [type |-> type, at |-> at]
    /\ status' = "exit1"
    /\ pc' = "done"
    /\ wpc' = "idle"

----------------------------------------------------------------------------
(* The calls into the operating system, as parts of the step that makes    *)
(* them: the call returns (and the caller goes on as Returned says) or     *)
(* raises an exception that nothing in the caller catches.                 *)

\* os.makedirs(name, exist_ok=True): every missing directory down to name is
\* created; a regular file in the way raises; the system may refuse part way
os_makedirs(name, at, Returned) ==
    LET k == Resolve(cwd, name)
    IN \/ /\ MakedirsAllowed(files, cwd, name)
          /\ dirs' = MakedirsResult(dirs, k)
          /\ mkcalls' = mkcalls \cup {k}
          /\ UNCHANGED <<status, exc>>
          /\ Returned
       \/ /\ ~MakedirsAllowed(files, cwd, name)
          /\ Uncaught(IF name = <<>> THEN "FileNotFoundError" ELSE "FileExistsError", at)
          /\ UNCHANGED <<dirs, mkcalls>>
       \/ /\ MakedirsAllowed(files, cwd, name)
          /\ \E n \in 0..(Len(k) - 1) :
               /\ SubSeq(k, 1, n + 1) \notin dirs
               /\ dirs' = MakedirsPartial(dirs, k, n)
          /\ mkcalls' = mkcalls \cup {k}
          /\ Uncaught("OSError", at)

\* open(path, 'w'): the file is created or emptied; a directory at the path
\* raises; the system may refuse
os_open_w(path, via, at, Returned) ==
    LET k == Resolve(cwd, path)
    IN \/ /\ OpenAllowed(dirs, files, k)
          /\ files' = OpenW(files, k)
          /\ wlog' = Append(wlog, [key |-> k, via |-> via])
          /\ UNCHANGED <<status, exc>>
          /\ Returned
       \/ /\ k \in dirs
          /\ Uncaught("IsADirectoryError", at)
          /\ UNCHANGED <<files, wlog>>
       \/ /\ k \notin dirs
          /\ Uncaught("OSError", at)
          /\ UNCHANGED <<files, wlog>>

\* a write whose failure is caught where it happens, the caller going on
os_write_swallowed(path, content, at, Returned) ==
    LET k == Resolve(cwd, path)
    IN \/ /\ files' = WriteAll(files, k, content)
          /\ UNCHANGED <<status, exc>>
          /\ Returned
       \/ /\ \E part \in ProperPrefixes(content) : files' = WriteAll(files, k, part)
          /\ exc' = [type |-> "OSError", at |-> at]
          /\ UNCHANGED status
          /\ Returned

\* f.write(content) and the close of the file: the content is in the file, or
\* the write raises and a part of the content is
os_write(path, content, at, Returned) ==
    LET k == Resolve(cwd, path)
    IN \/ /\ files' = WriteAll(files, k, content)
          /\ UNCHANGED <<status, exc>>
          /\ Returned
       \/ /\ \E part \in ProperPrefixes(content) : files' = WriteAll(files, k, part)
          /\ Uncaught("OSError", at)

----------------------------------------------------------------------------
(* The writer function: write_file / create_file.                          *)

WriterModules == {"FINAL_GENERATOR", "GENERATE_ALL_THEORIES",
                  "CREATE_FULL_THEORY", "generate_all_theory_files"}

\* path.split('/'): an absolute path starts with an empty part
Split(p) == IF IsAbs(p) THEN <<<<>>>> \o Tail(p) ELSE p

\* parts[-n] if len(parts) >= n else ''
PartFromEnd(parts, n) == IF Len(parts) >= n THEN parts[Len(parts) - n + 1] ELSE <<>>

\* path.replace(os.getcwd() + '/', ''): a path below the working directory is
\* shown relative to it
RelPath(c, p) ==
    IF StartsWith(p, getcwd(c)) /\ Len(p) > Len(getcwd(c))
    THEN SubSeq(p, Len(getcwd(c)) + 1, Len(p))
    ELSE p

\* the progress message each module's writer prints
ProgressMessage(m, c, p) ==
    CASE m = "FINAL_GENERATOR" ->
           Msg("progress", <<PartFromEnd(Split(p), 3), PartFromEnd(Split(p), 2)>>)
      [] m = "GENERATE_ALL_THEORIES" ->
           Msg("progress", <<RelPath(c, p)>>)
      [] m = "CREATE_FULL_THEORY" ->
           Msg("Created", <<p>>)
      [] m = "generate_theories" ->
           Msg("progress Created", <<p>>)
      [] OTHER ->
           Msg("progress", <<p>>)

\* the caller's side of a call: the arguments are bound, the body starts;
\* wcalls keeps the arguments of every call made so far
CallWriter(p, c) ==
    /\ wpc = "idle"
    /\ wpc' = "makedirs"
    /\ wpath' = p
    /\ wcontent' = c
    /\ wcalls' = Append(wcalls, << p, c >>)

\* os.makedirs(os.path.dirname(path), exist_ok=True)
write_file_makedirs ==
    /\ wpc = "makedirs"
    /\ os_makedirs(dirname(wpath), "makedirs", wpc' = "open" /\ pc' = pc)
    /\ UNCHANGED <<files, wlog, out, wpath, wcontent, wcalls, ncalls>>
    /\ UNCHANGED <<runVars, scanVars, topicVars>>

\* with open(path, 'w', ...) as f:
write_file_open ==
    /\ wpc = "open"
    /\ os_open_w(wpath, "writer", "open", wpc' = "write" /\ pc' = pc)
    /\ UNCHANGED <<dirs, mkcalls, out, wpath, wcontent, wcalls, ncalls>>
    /\ UNCHANGED <<runVars, scanVars, topicVars>>

\* f.write(content), and the flush and close on leaving the with block
write_file_write ==
    /\ wpc = "write"
    /\ os_write(wpath, wcontent, "write", wpc' = "print" /\ pc' = pc)
    /\ UNCHANGED <<dirs, wlog, mkcalls, out, wpath, wcontent, wcalls, ncalls>>
    /\ UNCHANGED <<runVars, scanVars, topicVars>>

\* print(...) of the progress message, and the return
write_file_print ==
    /\ wpc = "print"
    /\ out' = Append(out, ProgressMessage(script, cwd, wpath))
    /\ wpc' = "idle"
    /\ UNCHANGED <<pc, status, exc, wpath, wcontent, wcalls, ncalls>>
    /\ UNCHANGED <<fsVars, runVars, scanVars, topicVars>>

write_file == write_file_makedirs \/ write_file_open \/ write_file_write \/ write_file_print

----------------------------------------------------------------------------
(* Direct calls of the writer on arbitrary arguments.                      *)

Work == <<N("w")>>
Old == <<"o">>

CallPaths == { <<N("t.md")>>,
               <<N("a"), N("basic"), N("t.md")>>,
               <<N("a"), N("basic")>>,
               <<Root, N("b"), N("t.md")>>,
               <<Root, N("w"), N("a"), N("basic"), N("t.md")>> }

CallContents == { <<"x">>, <<"y", "z">> }

NoFiles == [k \in {} |-> <<>>]

\* the file systems a direct-call run starts from: empty; the target exists;
\* an ancestor of the target is a regular file; the target is a directory
CallFileSystems ==
    { [d |-> {<<>>, Work}, f |-> NoFiles],
      [d |-> {<<>>, Work, Work \o <<N("a")>>, Work \o <<N("a"), N("basic")>>},
       f |-> [k \in {Work \o <<N("a"), N("basic"), N("t.md")>>} |-> Old]],
      [d |-> {<<>>, Work},
       f |-> [k \in {Work \o <<N("a")>>} |-> Old]],
      [d |-> {<<>>, Work, Work \o <<N("a")>>, Work \o <<N("a"), N("basic")>>,
              Work \o <<N("a"), N("basic"), N("t.md")>>},
       f |-> NoFiles] }

InitCommon ==
    /\ nruns = 1
    /\ pc = "start"
    /\ status = "running"
    /\ exc = NoExc
    /\ dirs0 = dirs
    /\ files0 = files
    /\ out = <<>>
    /\ wlog = <<>>
    /\ mkcalls = {}
    /\ wpc = "idle"
    /\ wpath = <<>>
    /\ wcontent = <<>>
    /\ wcalls = <<>>
    /\ ncalls = 0
    /\ i = 0
    /\ lv = 0
    /\ existing = 0
    /\ visited = 0
    /\ ti = 0

InitCall ==
    /\ entry = "call"
    /\ script \in WriterModules
    /\ cwd = Work
    /\ \E fs \in CallFileSystems : dirs = fs.d /\ files = fs.f
    /\ InitCommon
    /\ importable = FALSE
    /\ topics = << >>

\* a caller of the module calls the writer with some path and some content
call_writer ==
    /\ entry = "call"
    /\ script \in WriterModules
    /\ pc = "start"
    /\ ncalls < MaxCalls
    /\ \E p \in CallPaths, c \in CallContents : CallWriter(p, c)
    /\ ncalls' = ncalls + 1
    /\ UNCHANGED <<pc, status, exc, out>>
    /\ UNCHANGED <<fsVars, runVars, scanVars, topicVars>>

\* the caller ends the run
call_exit ==
    /\ entry = "call"
    /\ pc = "start"
    /\ wpc = "idle"
    /\ pc' = "done"
    /\ status' = "exit0"
    /\ UNCHANGED <<exc, out, ncalls>>
    /\ UNCHANGED <<fsVars, runVars, scanVars, topicVars, callVars>>

NextCall == call_writer \/ call_exit \/ write_file

SpecCall == InitCall /\ [][NextCall]_vars

----------------------------------------------------------------------------
(* Topics and levels.                                                      *)

\* generate_comprehensive_theory.TOPICS
TOPICS == <<
    [num |-> <<"0", "1">>, name |-> N("basics_and_syntax"), title |-> "Basics and Syntax",
     needs_intermediate |-> TRUE, needs_advanced |-> TRUE],
    [num |-> <<"0", "2">>, name |-> N("data_types_and_variables"), title |-> "Data Types and Variables",
     needs_intermediate |-> TRUE, needs_advanced |-> TRUE],
    [num |-> <<"0", "3">>, name |-> N("operators_and_expressions"), title |-> "Operators and Expressions",
     needs_intermediate |-> TRUE, needs_advanced |-> TRUE],
    [num |-> <<"0", "4">>, name |-> N("control_flow"), title |-> "Control Flow",
     needs_intermediate |-> TRUE, needs_advanced |-> TRUE],
    [num |-> <<"0", "5">>, name |-> N("functions"), title |-> "Functions",
     needs_intermediate |-> TRUE, needs_advanced |-> TRUE],
    [num |-> <<"0", "6">>, name |-> N("arrays_and_slices"), title |-> "Arrays and Slices",
     needs_intermediate |-> TRUE, needs_advanced |-> TRUE],
    [num |-> <<"0", "7">>, name |-> N("maps"), title |-> "Maps",
     needs_intermediate |-> TRUE, needs_advanced |-> TRUE],
    [num |-> <<"0", "8">>, name |-> N("structs"), title |-> "Structs",
     needs_intermediate |-> TRUE, needs_advanced |-> TRUE],
    [num |-> <<"0", "9">>, name |-> N("pointers"), title |-> "Pointers",
     needs_intermediate |-> TRUE, needs_advanced |-> TRUE],
    [num |-> <<"1", "0">>, name |-> N("methods_and_interfaces"), title |-> "Methods and Interfaces",
     needs_intermediate |-> TRUE, needs_advanced |-> TRUE],
    [num |-> <<"1", "1">>, name |-> N("error_handling"), title |-> "Error Handling",
     needs_intermediate |-> TRUE, needs_advanced |-> TRUE],
    [num |-> <<"1", "2">>, name |-> N("packages_and_modules"), title |-> "Packages and Modules",
     needs_intermediate |-> TRUE, needs_advanced |-> TRUE],
    [num |-> <<"1", "3">>, name |-> N("concurrency"), title |-> "Concurrency",
     needs_intermediate |-> TRUE, needs_advanced |-> TRUE],
    [num |-> <<"1", "4">>, name |-> N("channels"), title |-> "Channels",
     needs_intermediate |-> TRUE, needs_advanced |-> TRUE],
    [num |-> <<"1", "5">>, name |-> N("file_io"), title |-> "File I/O",
     needs_intermediate |-> TRUE, needs_advanced |-> TRUE],
    [num |-> <<"1", "6">>, name |-> N("testing"), title |-> "Testing",
     needs_intermediate |-> TRUE, needs_advanced |-> TRUE],
    [num |-> <<"1", "7">>, name |-> N("reflection"), title |-> "Reflection",
     needs_intermediate |-> TRUE, needs_advanced |-> TRUE],
    [num |-> <<"1", "8">>, name |-> N("generics"), title |-> "Generics",
     needs_intermediate |-> TRUE, needs_advanced |-> TRUE],
    [num |-> <<"1", "9">>, name |-> N("memory_management"), title |-> "Memory Management",
     needs_intermediate |-> TRUE, needs_advanced |-> TRUE],
    [num |-> <<"2", "0">>, name |-> N("advanced_patterns"), title |-> "Advanced Patterns",
     needs_intermediate |-> TRUE, needs_advanced |-> TRUE] >>

\* f"{topic['name']}": the number left out of the directory name
TopicDirNoNum(t) == t.name

\* f"{topic['num']}_{topic['name']}"
TopicDir(t) == t.num \o <<"_">> \o t.name

\* ['basic', 'intermediate', 'advanced']
levels == << N("basic"), N("intermediate"), N("advanced") >>

TheoryMd == N("theory.md")

\* "/media/usb/anrai/golang/go_theory"
BASE_PATH == << Root, N("media"), N("usb"), N("anrai"), N("golang"), N("go_theory") >>

\* os.path.dirname(os.path.abspath(__file__)): the scripts lie in go_theory
ScriptDir == Tail(BASE_PATH)

\* the decimal digits of a natural number
Digit(n) == << "0", "1", "2", "3", "4", "5", "6", "7", "8", "9" >>[n + 1]

RECURSIVE Decimal(_)
Decimal(n) == IF n < 10 THEN << Digit(n) >> ELSE Decimal(n \div 10) \o << Digit(n % 10) >>

\* f"{i:02d}": decimal, padded with zeros on the left to two digits
Format02d(n) == IF Len(Decimal(n)) < 2 THEN << "0" >> \o Decimal(n) ELSE Decimal(n)

----------------------------------------------------------------------------
(* FINAL_GENERATOR.main and its __main__ block.                            *)

\* range(1, 21) ends at 20
LastTopic == 20

\* the number of theory files the status lines count against
Expected == 60

\* the names os.listdir('.') returns: the entries of the working directory
Entries(d, f, c) ==
    { k[Len(c) + 1] : k \in { x \in d \cup DOMAIN f :
                                Len(x) = Len(c) + 1 /\ SubSeq(x, 1, Len(c)) = c } }

\* os.listdir returns the entries in an order of the system's choosing
Listings(S) ==
    { l \in [1..Cardinality(S) -> S] : \A a, b \in 1..Cardinality(S) : l[a] = l[b] => a = b }

\* the body of the loop over os.listdir('.') for one topic number and one level
TopicDirHasTheory(d, f, c, topic_dir, n, level) ==
    /\ StartsWith(topic_dir, Format02d(n) \o << "_" >>)
    /\ exists(d, f, Resolve(c, << topic_dir, level, TheoryMd >>))

\* the loop without its break: every entry that has the file is counted
RECURSIVE ScanListingNoBreak(_, _, _, _, _, _)
ScanListingNoBreak(d, f, c, listing, n, level) ==
    IF listing = << >> THEN 0
    ELSE (IF TopicDirHasTheory(d, f, c, Head(listing), n, level) THEN 1 ELSE 0)
           + ScanListingNoBreak(d, f, c, Tail(listing), n, level)

\* the loop over os.listdir('.'): what it adds to existing, leaving at the
\* first entry that has the file
RECURSIVE ScanListing(_, _, _, _, _, _)
ScanListing(d, f, c, listing, n, level) ==
    IF listing = << >> THEN 0
    ELSE IF TopicDirHasTheory(d, f, c, Head(listing), n, level) THEN 1
    ELSE ScanListing(d, f, c, Tail(listing), n, level)

\* the four banner lines of main
main_banner ==
    /\ script = "FINAL_GENERATOR" /\ entry = "main"
    /\ pc = "start"
    /\ out' = Append(out, Msg("banner", << >>))
    /\ pc' = "chdir"
    /\ UNCHANGED << status, exc, ncalls >>
    /\ UNCHANGED << fsVars, runVars, scanVars, topicVars, callVars >>

\* os.chdir(base_path); existing = 0
main_chdir ==
    /\ script = "FINAL_GENERATOR" /\ entry = "main"
    /\ pc = "chdir"
    /\ cwd' = ScriptDir
    /\ existing' = 0
    /\ i' = 1
    /\ lv' = 1
    /\ pc' = "scan"
    /\ UNCHANGED << script, entry, nruns, dirs0, files0, importable, visited >>
    /\ UNCHANGED << status, exc, out, ncalls >>
    /\ UNCHANGED << fsVars, topicVars, callVars >>

\* one pass of the loop over levels, inside the loop over range(1, 21)
main_scan ==
    /\ script = "FINAL_GENERATOR" /\ entry = "main"
    /\ pc = "scan"
    /\ \E listing \in Listings(Entries(dirs, files, cwd)) :
         existing' = existing + ScanListing(dirs, files, cwd, listing, i, levels[lv])
    /\ visited' = visited + 1
    /\ IF lv < Len(levels)
       THEN lv' = lv + 1 /\ i' = i /\ pc' = pc
       ELSE /\ lv' = 1
            /\ IF i < LastTopic
               THEN i' = i + 1 /\ pc' = pc
               ELSE i' = i /\ pc' = "status"
    /\ UNCHANGED << importable, status, exc, out, ncalls >>
    /\ UNCHANGED << fsVars, runVars, topicVars, callVars >>

\* the two status lines
main_status ==
    /\ script = "FINAL_GENERATOR" /\ entry = "main"
    /\ pc = "status"
    /\ out' = out \o << Msg("Status", << existing >>),
                        Msg("Generating", << Expected - existing >>) >>
    /\ pc' = "import"
    /\ UNCHANGED << status, exc, ncalls >>
    /\ UNCHANGED << fsVars, runVars, scanVars, topicVars, callVars >>

\* the import without the try block around main(): the ImportError is not caught
main_import_uncaught ==
    /\ script = "FINAL_GENERATOR" /\ entry = "main"
    /\ pc = "import"
    /\ IF importable
       THEN pc' = "generate" /\ UNCHANGED << exc, status, wpc >>
       ELSE Uncaught("ImportError", "import")
    /\ UNCHANGED << out, ncalls, wpath, wcontent, wcalls >>
    /\ UNCHANGED << fsVars, runVars, scanVars, topicVars >>

\* from generate_all_content import generate_all_theories
main_import ==
    /\ script = "FINAL_GENERATOR" /\ entry = "main"
    /\ pc = "import"
    /\ IF importable
       THEN pc' = "generate" /\ exc' = exc
       ELSE pc' = "except" /\ exc' = [type |-> "ImportError", at |-> "import"]
    /\ UNCHANGED << status, out, ncalls >>
    /\ UNCHANGED << fsVars, runVars, scanVars, topicVars, callVars >>

\* the first topic the generator is documented to produce ("Topics 03-20")
FirstGenerated == 3

\* what generate_all_theories writes into a theory file
Generated == << "generated" >>

\* the theory files of topics FirstGenerated..n, relative to the working directory
GeneratedKeys(c, n) ==
    { Resolve(c, << TopicDir(TOPICS[t]), levels[l], TheoryMd >>) :
        t \in FirstGenerated..n, l \in 1..Len(levels) }

\* the file system lets the generator write the theory files of topics
\* FirstGenerated..n
GenerateAllowed(d, f, c, n) ==
    { k \in GeneratedKeys(c, n) :
        k \in d \/ Prefixes(SubSeq(k, 1, Len(k) - 1)) \cap DOMAIN f # {} } = {}

\* the directories and files once the theory files of topics FirstGenerated..n
\* are written
GenerateDirs(d, c, n) ==
    d \cup UNION { Prefixes(SubSeq(k, 1, Len(k) - 1)) : k \in GeneratedKeys(c, n) }

GenerateFiles(f, c, n) ==
    [ k \in DOMAIN f \cup GeneratedKeys(c, n) |->
        IF k \in GeneratedKeys(c, n) THEN Generated ELSE f[k] ]

\* generate_all_theories(): it returns having written every theory file of
\* topics 03-20, or raises part way; an ImportError reaches the handler of
\* the __main__ block, any other exception is not caught
main_generate ==
    /\ script = "FINAL_GENERATOR" /\ entry = "main"
    /\ pc = "generate"
    /\ \E n \in (FirstGenerated - 1)..Len(TOPICS) :
         /\ GenerateAllowed(dirs, files, cwd, n)
         /\ dirs' = GenerateDirs(dirs, cwd, n)
         /\ files' = GenerateFiles(files, cwd, n)
         /\ \/ /\ n = Len(TOPICS)
               /\ pc' = "complete"
               /\ UNCHANGED << status, exc, wpc >>
            \/ /\ n < Len(TOPICS)
               /\ pc' = "except"
               /\ exc' = [type |-> "ImportError", at |-> "generate_all_theories"]
               /\ UNCHANGED << status, wpc >>
            \/ /\ n < Len(TOPICS)
               /\ Uncaught("OSError", "generate_all_theories")
    /\ UNCHANGED << wlog, mkcalls, out, ncalls, wpath, wcontent, wcalls >>
    /\ UNCHANGED << runVars, scanVars, topicVars >>

\* the lines from "GENERATION COMPLETE!" to the end of main; the script ends
main_complete ==
    /\ script = "FINAL_GENERATOR" /\ entry = "main"
    /\ pc = "complete"
    /\ out' = Append(out, Msg("GENERATION COMPLETE!", << >>))
    /\ pc' = "done"
    /\ status' = "exit0"
    /\ UNCHANGED << exc, ncalls >>
    /\ UNCHANGED << fsVars, runVars, scanVars, topicVars, callVars >>

\* except ImportError: the fallback lines, then sys.exit(0)
main_except ==
    /\ script = "FINAL_GENERATOR" /\ entry = "main"
    /\ pc = "except"
    /\ out' = Append(out, Msg("Creating content generation module...", << >>))
    /\ pc' = "done"
    /\ status' = "exit0"
    /\ UNCHANGED << exc, ncalls >>
    /\ UNCHANGED << fsVars, runVars, scanVars, topicVars, callVars >>

\* what a theory file holds before the run
Present == << "present" >>

\* directory entries the script's directory may hold before the run: a topic
\* directory, a second directory with the same number, a directory of a topic
\* the generator writes, a directory with a number past the last topic
DirPool == { TopicDir(TOPICS[1]), << "0", "1", "_", "alt" >>,
             TopicDir(TOPICS[3]), << "2", "1", "_", "extra" >> }

\* plain files the script's directory may hold: one with a topic's prefix
FilePool == { << "0", "2", "_", "notes" >> }

\* which levels of a topic directory hold a theory.md
LevelSets == { {}, {1}, {2, 3}, {1, 2, 3} }

\* how many entries the script's directory holds besides the script itself
MaxEntries == 2

ScriptFile == N("FINAL_GENERATOR.py")

InitFinal ==
    /\ entry = "main"
    /\ script = "FINAL_GENERATOR"
    /\ cwd \in { << >>, ScriptDir }
    /\ \E D \in SUBSET DirPool, F \in SUBSET FilePool :
         /\ Cardinality(D) + Cardinality(F) <= MaxEntries
         /\ \E ls \in [D -> LevelSets] :
              /\ dirs = Prefixes(ScriptDir)
                          \cup { ScriptDir \o << e >> : e \in D }
                          \cup { ScriptDir \o << e, levels[l] >> : e \in D, l \in 1..Len(levels) }
              /\ files = [ k \in { ScriptDir \o << e >> : e \in F \cup { ScriptFile } }
                                 \cup UNION { { ScriptDir \o << e, levels[l], TheoryMd >> : l \in ls[e] } : e \in D }
                           |-> Present ]
    /\ InitCommon
    /\ importable \in BOOLEAN
    /\ topics = TOPICS

NextFinal ==
    \/ main_banner \/ main_chdir \/ main_scan \/ main_status
    \/ main_import \/ main_generate \/ main_complete \/ main_except

SpecFinal == InitFinal /\ [][NextFinal]_vars

----------------------------------------------------------------------------
(* The file systems a script other than FINAL_GENERATOR starts from.       *)

Topic02Dir == << "0", "2", "_", "data_types_and_variables" >>

BaseKey == Resolve(<< >>, BASE_PATH)

\* nothing below the root; an empty go_theory; topic 02 with its basic
\* theory.md; a plain file where topic 02's directory belongs; topic 01 with
\* its three level directories, examples and claude.md
ScriptFileSystems ==
    { [d |-> { << >> }, f |-> NoFiles],
      [d |-> Prefixes(BaseKey), f |-> NoFiles],
      [d |-> Prefixes(BaseKey \o << Topic02Dir, N("basic") >>),
       f |-> [k \in { BaseKey \o << Topic02Dir, N("basic"), TheoryMd >> } |-> Present]],
      [d |-> Prefixes(BaseKey),
       f |-> [k \in { BaseKey \o << Topic02Dir >> } |-> Present]],
      [d |-> Prefixes(BaseKey)
               \cup UNION { Prefixes(BaseKey \o << TopicDir(TOPICS[1]), levels[l], N("examples") >>) :
                              l \in 1..Len(levels) },
       f |-> [k \in { BaseKey \o << TopicDir(TOPICS[1]), N("claude.md") >>,
                      BaseKey \o << TopicDir(TOPICS[1]), N("basic"), TheoryMd >>,
                      BaseKey \o << TopicDir(TOPICS[1]), N("basic"), N("examples"), N("hello.go") >> }
                |-> Present]] }

----------------------------------------------------------------------------
(* GENERATE_ALL_THEORIES.py: the module body.                              *)

\* the banner lines
gat_banner ==
    /\ script = "GENERATE_ALL_THEORIES" /\ entry = "main"
    /\ pc = "start"
    /\ out' = Append(out, Msg("GO LANGUAGE THEORY GENERATOR", << >>))
    /\ pc' = "generating"
    /\ UNCHANGED << status, exc, ncalls >>
    /\ UNCHANGED << fsVars, runVars, scanVars, topicVars, callVars >>

\* the last statement of the module; the script ends
gat_generating ==
    /\ script = "GENERATE_ALL_THEORIES" /\ entry = "main"
    /\ pc = "generating"
    /\ out' = Append(out, Msg("Generating detailed theory files for all 20 topics...", << >>))
    /\ pc' = "done"
    /\ status' = "exit0"
    /\ UNCHANGED << exc, ncalls >>
    /\ UNCHANGED << fsVars, runVars, scanVars, topicVars, callVars >>

----------------------------------------------------------------------------
(* generate_all_theory_files.py: the module body.                          *)

topics_count == 20

\* the total as a sum in place of the product
total_sum == topics_count + Len(levels)

\* total = topics_count * len(levels)
total == topics_count * Len(levels)

\* the lines before the count
gatf_banner ==
    /\ script = "generate_all_theory_files" /\ entry = "main"
    /\ pc = "start"
    /\ out' = out \o << Msg("Go Theory Generator - Creating comprehensive learning materials", << >>),
                        Msg("Generating theory files... This will take a moment.", << >>) >>
    /\ pc' = "count"
    /\ UNCHANGED << status, exc, ncalls >>
    /\ UNCHANGED << fsVars, runVars, scanVars, topicVars, callVars >>

\* the three lines that report the count
gatf_count ==
    /\ script = "generate_all_theory_files" /\ entry = "main"
    /\ pc = "count"
    /\ out' = out \o << Msg("Total theory files to create", << total >>),
                        Msg("Topics", << topics_count >>),
                        Msg("Levels per topic", << Len(levels) >>) >>
    /\ pc' = "note"
    /\ UNCHANGED << status, exc, ncalls >>
    /\ UNCHANGED << fsVars, runVars, scanVars, topicVars, callVars >>

\* the closing lines; the script ends
gatf_note ==
    /\ script = "generate_all_theory_files" /\ entry = "main"
    /\ pc = "note"
    /\ out' = Append(out, Msg("NOTE", << >>))
    /\ pc' = "done"
    /\ status' = "exit0"
    /\ UNCHANGED << exc, ncalls >>
    /\ UNCHANGED << fsVars, runVars, scanVars, topicVars, callVars >>

----------------------------------------------------------------------------
(* CREATE_FULL_THEORY.py: the module body.                                 *)

TOPIC_02_BASIC == << "# Data Types and Variables - Basic Level", "## Overview" >>

TOPIC_02_BASIC_EXAMPLE == << "package main", "func main() {}" >>

\* print("Generating Topic 02: Data Types and Variables...")
cft_generating ==
    /\ script = "CREATE_FULL_THEORY" /\ entry = "main"
    /\ pc = "start"
    /\ out' = Append(out, Msg("Generating Topic 02: Data Types and Variables...", << >>))
    /\ pc' = "theory"
    /\ UNCHANGED << status, exc, ncalls >>
    /\ UNCHANGED << fsVars, runVars, scanVars, topicVars, callVars >>

\* write_file(f"{BASE_PATH}/02_data_types_and_variables/basic/theory.md", TOPIC_02_BASIC)
cft_theory ==
    /\ script = "CREATE_FULL_THEORY" /\ entry = "main"
    /\ pc = "theory"
    /\ CallWriter(BASE_PATH \o << Topic02Dir, N("basic"), TheoryMd >>, TOPIC_02_BASIC)
    /\ pc' = "example"
    /\ UNCHANGED << status, exc, out, ncalls >>
    /\ UNCHANGED << fsVars, runVars, scanVars, topicVars >>

\* the second call with the path of the first
cft_example_same_path ==
    /\ script = "CREATE_FULL_THEORY" /\ entry = "main"
    /\ pc = "example"
    /\ CallWriter(BASE_PATH \o << Topic02Dir, N("basic"), TheoryMd >>, TOPIC_02_BASIC_EXAMPLE)
    /\ pc' = "continue"
    /\ UNCHANGED << status, exc, out, ncalls >>
    /\ UNCHANGED << fsVars, runVars, scanVars, topicVars >>

\* write_file(f"{BASE_PATH}/02_data_types_and_variables/basic/examples/types.go", ...)
cft_example ==
    /\ script = "CREATE_FULL_THEORY" /\ entry = "main"
    /\ pc = "example"
    /\ CallWriter(BASE_PATH \o << Topic02Dir, N("basic"), N("examples"), N("types.go") >>,
                  TOPIC_02_BASIC_EXAMPLE)
    /\ pc' = "continue"
    /\ UNCHANGED << status, exc, out, ncalls >>
    /\ UNCHANGED << fsVars, runVars, scanVars, topicVars >>

\* the three closing lines; the script ends
cft_continue ==
    /\ script = "CREATE_FULL_THEORY" /\ entry = "main"
    /\ pc = "continue"
    /\ wpc = "idle"
    /\ out' = Append(out, Msg("Theory generation would continue for all 20 topics...", << >>))
    /\ pc' = "done"
    /\ status' = "exit0"
    /\ UNCHANGED << exc, ncalls >>
    /\ UNCHANGED << fsVars, runVars, scanVars, topicVars, callVars >>

InitScripts ==
    /\ entry = "main"
    /\ script \in { "GENERATE_ALL_THEORIES", "generate_all_theory_files", "CREATE_FULL_THEORY" }
    /\ cwd \in { << >>, BaseKey }
    /\ \E fs \in ScriptFileSystems : dirs = fs.d \cup Prefixes(cwd) /\ files = fs.f
    /\ InitCommon
    /\ importable = FALSE
    /\ topics = TOPICS

NextScripts ==
    \/ gat_banner \/ gat_generating
    \/ gatf_banner \/ gatf_count \/ gatf_note
    \/ cft_generating \/ cft_theory \/ cft_example \/ cft_continue
    \/ write_file

SpecScripts == InitScripts /\ [][NextScripts]_vars

----------------------------------------------------------------------------
(* generate_comprehensive_theory.py: create_all_topics and __main__.       *)

\* topic[key] read as false when the key is missing
GetOrFalse(t, key, default) == IF key \in DOMAIN t THEN t[key] ELSE FALSE

\* dict.get(key, default)
Get(t, key, default) == IF key \in DOMAIN t THEN t[key] ELSE default

\* create_topic_content: the text of claude.md, the title formatted in twice
create_topic_content(topic_num, topic_name, topic_title) ==
    << "# ", topic_title, " - Topic Context", "comprehensive Go theory for **",
       topic_title, "**", "Start with basic/theory.md and progress through the levels." >>

\* os.path.join(base_path, topic_dir)
topic_path(t) == join(BASE_PATH, TopicDir(t))

\* the lists create_all_topics is run on: TOPICS as the module defines it, and
\* lists of its first entries with a flag false or left out
TopicLists ==
    { TOPICS,
      << [TOPICS[1] EXCEPT !.needs_intermediate = FALSE], TOPICS[2] >>,
      << [TOPICS[1] EXCEPT !.needs_advanced = FALSE],
         [num |-> TOPICS[2].num, name |-> TOPICS[2].name, title |-> TOPICS[2].title] >>,
      << [num |-> TOPICS[1].num, name |-> TOPICS[1].name, title |-> TOPICS[1].title,
          needs_advanced |-> FALSE],
         [TOPICS[2] EXCEPT !.needs_intermediate = FALSE, !.needs_advanced = FALSE] >> }

\* the loop running over the list from its end
topic_reversed == topics[Len(topics) + 1 - ti]

\* the topic the loop is at
topic == topics[ti]

\* create_all_topics is called; the loop takes the first topic
create_all_topics_enter ==
    /\ script = "generate_comprehensive_theory" /\ entry = "main"
    /\ pc = "start"
    /\ ti' = 1
    /\ pc' = IF Len(topics) >= 1 THEN "basic" ELSE "created"
    /\ UNCHANGED << topics, status, exc, out, ncalls >>
    /\ UNCHANGED << fsVars, runVars, scanVars, callVars >>

\* os.makedirs(os.path.join(topic_path, "basic", "examples"), exist_ok=True)
create_all_topics_basic ==
    /\ script = "generate_comprehensive_theory" /\ entry = "main"
    /\ pc = "basic"
    /\ os_makedirs(topic_path(topic) \o << N("basic"), N("examples") >>, "basic",
                   pc' = "intermediate" /\ wpc' = wpc)
    /\ UNCHANGED << files, wlog, out, ncalls, wpath, wcontent, wcalls >>
    /\ UNCHANGED << runVars, scanVars, topicVars >>

\* if topic.get('needs_intermediate', True): os.makedirs(... "intermediate", "examples" ...)
create_all_topics_intermediate ==
    /\ script = "generate_comprehensive_theory" /\ entry = "main"
    /\ pc = "intermediate"
    /\ IF Get(topic, "needs_intermediate", TRUE)
       THEN os_makedirs(topic_path(topic) \o << N("intermediate"), N("examples") >>, "intermediate",
                        pc' = "advanced" /\ wpc' = wpc)
       ELSE pc' = "advanced" /\ UNCHANGED << dirs, mkcalls, status, exc, wpc >>
    /\ UNCHANGED << files, wlog, out, ncalls, wpath, wcontent, wcalls >>
    /\ UNCHANGED << runVars, scanVars, topicVars >>

\* if topic.get('needs_advanced', True): os.makedirs(... "advanced", "examples" ...)
create_all_topics_advanced ==
    /\ script = "generate_comprehensive_theory" /\ entry = "main"
    /\ pc = "advanced"
    /\ IF Get(topic, "needs_advanced", TRUE)
       THEN os_makedirs(topic_path(topic) \o << N("advanced"), N("examples") >>, "advanced",
                        pc' = "claude_open" /\ wpc' = wpc)
       ELSE pc' = "claude_open" /\ UNCHANGED << dirs, mkcalls, status, exc, wpc >>
    /\ UNCHANGED << files, wlog, out, ncalls, wpath, wcontent, wcalls >>
    /\ UNCHANGED << runVars, scanVars, topicVars >>

\* with open(os.path.join(topic_path, "claude.md"), 'w') as f:
create_all_topics_open ==
    /\ script = "generate_comprehensive_theory" /\ entry = "main"
    /\ pc = "claude_open"
    /\ os_open_w(join(topic_path(topic), N("claude.md")), "open", "claude_open",
                 pc' = "claude_write" /\ wpc' = wpc)
    /\ UNCHANGED << dirs, mkcalls, out, ncalls, wpath, wcontent, wcalls >>
    /\ UNCHANGED << runVars, scanVars, topicVars >>

\* f.write(claude_content), and the close of the file
create_all_topics_write ==
    /\ script = "generate_comprehensive_theory" /\ entry = "main"
    /\ pc = "claude_write"
    /\ os_write(join(topic_path(topic), N("claude.md")),
                create_topic_content(topic.num, topic.name, topic.title), "claude_write",
                pc' = "print" /\ wpc' = wpc)
    /\ UNCHANGED << dirs, wlog, mkcalls, out, ncalls, wpath, wcontent, wcalls >>
    /\ UNCHANGED << runVars, scanVars, topicVars >>

\* print(f"Created structure for {topic['title']}"); the loop takes the next topic
create_all_topics_print ==
    /\ script = "generate_comprehensive_theory" /\ entry = "main"
    /\ pc = "print"
    /\ out' = Append(out, Msg("Created structure for", << topic.title >>))
    /\ ti' = ti + 1
    /\ pc' = IF ti < Len(topics) THEN "basic" ELSE "created"
    /\ UNCHANGED << topics, status, exc, ncalls >>
    /\ UNCHANGED << fsVars, runVars, scanVars, callVars >>

\* the two lines of the __main__ block after the call; the script ends
create_all_topics_created ==
    /\ script = "generate_comprehensive_theory" /\ entry = "main"
    /\ pc = "created"
    /\ out' = Append(out, Msg("All topic structures created!", << >>))
    /\ pc' = "done"
    /\ status' = "exit0"
    /\ UNCHANGED << exc, ncalls >>
    /\ UNCHANGED << fsVars, runVars, scanVars, topicVars, callVars >>

\* python3 generate_comprehensive_theory.py once more, on the file system the
\* run before has left: a new process starts
create_all_topics_again ==
    /\ script = "generate_comprehensive_theory" /\ entry = "main"
    /\ pc = "done"
    /\ status = "exit0"
    /\ nruns < MaxRuns
    /\ nruns' = nruns + 1
    /\ pc' = "start"
    /\ status' = "running"
    /\ out' = << >>
    /\ wlog' = << >>
    /\ mkcalls' = {}
    /\ ti' = 0
    /\ dirs0' = dirs
    /\ files0' = files
    /\ UNCHANGED << script, entry, cwd, dirs, files, exc, ncalls, topics >>
    /\ UNCHANGED << scanVars, callVars >>

create_all_topics ==
    \/ create_all_topics_enter \/ create_all_topics_basic
    \/ create_all_topics_intermediate \/ create_all_topics_advanced
    \/ create_all_topics_open \/ create_all_topics_write
    \/ create_all_topics_print

InitTopics ==
    /\ entry = "main"
    /\ script = "generate_comprehensive_theory"
    /\ cwd \in { << >>, BaseKey }
    /\ \E fs \in ScriptFileSystems : dirs = fs.d \cup Prefixes(cwd) /\ files = fs.f
    /\ InitCommon
    /\ importable = FALSE
    /\ topics \in TopicLists

NextTopics == create_all_topics \/ create_all_topics_created \/ create_all_topics_again

SpecTopics == InitTopics /\ [][NextTopics]_vars

----------------------------------------------------------------------------
(* generate_theories.py: create_theory_file, as lines 10-18 define it and  *)
(* called on arbitrary arguments, and the module run as a script.          *)

\* os.path.join(topic_path, "theory.md"): the level left out of the path
filepath_no_level(tpath, level) == join(tpath, TheoryMd)

\* filepath = os.path.join(topic_path, level, "theory.md")
filepath(tpath, level) == join(join(tpath, level), TheoryMd)

\* topic_path arguments: relative, absolute, and nested in a missing directory
TheoryTopicPaths == { << N("a") >>, << Root, N("w"), N("b") >>, << N("c"), N("d") >> }

\* level arguments
TheoryLevels == { levels[l] : l \in 1..Len(levels) }

\* the file systems a call starts from: empty; two topics with theory files
\* at several levels and an example file; a regular file where a topic
\* directory belongs
TheoryFileSystems ==
    { [d |-> { << >>, Work }, f |-> NoFiles],
      [d |-> Prefixes(Work \o << N("a"), N("basic"), N("examples") >>)
               \cup Prefixes(Work \o << N("a"), N("intermediate") >>)
               \cup Prefixes(Work \o << N("b"), N("basic") >>),
       f |-> [k \in { Work \o << N("a"), N("basic"), TheoryMd >>,
                      Work \o << N("a"), N("intermediate"), TheoryMd >>,
                      Work \o << N("a"), N("basic"), N("examples"), N("x.go") >>,
                      Work \o << N("b"), N("basic"), TheoryMd >> } |-> Old]],
      [d |-> { << >>, Work },
       f |-> [k \in { Work \o << N("a") >> } |-> Old]] }

\* a call create_theory_file(topic_path, level, content): the arguments are
\* bound and filepath is computed
create_theory_file_call ==
    /\ script = "generate_theories" /\ entry = "call"
    /\ pc = "start"
    /\ wpc = "idle"
    /\ ncalls < MaxCalls
    /\ \E tp \in TheoryTopicPaths, l \in TheoryLevels, c \in CallContents :
         /\ wpath' = filepath(tp, l)
         /\ wcontent' = c
         /\ wcalls' = Append(wcalls, << tp, l, c >>)
    /\ wpc' = "theory_makedirs"
    /\ ncalls' = ncalls + 1
    /\ UNCHANGED << pc, status, exc, out >>
    /\ UNCHANGED << fsVars, runVars, scanVars, topicVars >>

\* os.makedirs(os.path.dirname(filepath), exist_ok=True)
create_theory_file_makedirs ==
    /\ wpc = "theory_makedirs"
    /\ os_makedirs(dirname(wpath), "makedirs", wpc' = "theory_open" /\ pc' = pc)
    /\ UNCHANGED << files, wlog, out, wpath, wcontent, wcalls, ncalls >>
    /\ UNCHANGED << runVars, scanVars, topicVars >>

\* with open(filepath, 'w') as f:
create_theory_file_open ==
    /\ wpc = "theory_open"
    /\ os_open_w(wpath, "writer", "open", wpc' = "theory_write" /\ pc' = pc)
    /\ UNCHANGED << dirs, mkcalls, out, wpath, wcontent, wcalls, ncalls >>
    /\ UNCHANGED << runVars, scanVars, topicVars >>

\* f.write(content), and the close on leaving the with block
create_theory_file_write ==
    /\ wpc = "theory_write"
    /\ os_write(wpath, wcontent, "write", wpc' = "theory_print" /\ pc' = pc)
    /\ UNCHANGED << dirs, wlog, mkcalls, out, wpath, wcontent, wcalls, ncalls >>
    /\ UNCHANGED << runVars, scanVars, topicVars >>

\* print(f"... Created: {filepath}"), and the return
create_theory_file_print ==
    /\ wpc = "theory_print"
    /\ out' = Append(out, ProgressMessage(script, cwd, wpath))
    /\ wpc' = "idle"
    /\ UNCHANGED << pc, status, exc, wpath, wcontent, wcalls, ncalls >>
    /\ UNCHANGED << fsVars, runVars, scanVars, topicVars >>

create_theory_file ==
    \/ create_theory_file_call \/ create_theory_file_makedirs
    \/ create_theory_file_open \/ create_theory_file_write
    \/ create_theory_file_print

\* python3 generate_theories.py: the string literal opened at line 28 is
\* never closed, the module does not compile and nothing of it runs
generate_theories_compile ==
    /\ script = "generate_theories" /\ entry = "main"
    /\ pc = "start"
    /\ Uncaught("SyntaxError", "compile")
    /\ UNCHANGED << out, ncalls, wpath, wcontent, wcalls >>
    /\ UNCHANGED << fsVars, runVars, scanVars, topicVars >>

InitTheory ==
    /\ script = "generate_theories"
    /\ entry \in { "call", "main" }
    /\ cwd = Work
    /\ \E fs \in TheoryFileSystems : dirs = fs.d /\ files = fs.f
    /\ InitCommon
    /\ importable = FALSE
    /\ topics = << >>

NextTheory == create_theory_file \/ call_exit \/ generate_theories_compile

SpecTheory == InitTheory /\ [][NextTheory]_vars

----------------------------------------------------------------------------
Init == InitCall \/ InitFinal \/ InitScripts \/ InitTopics \/ InitTheory

Next == NextCall \/ NextFinal \/ NextScripts \/ NextTopics \/ NextTheory

Spec == Init /\ [][Next]_vars

----------------------------------------------------------------------------
(* Notions the properties are stated in, written from the statements and   *)
(* not from the operators above.                                           *)

FsInv == FsOk(dirs, files)

Last(q) == q[Len(q)]

IsFinal == script = "FINAL_GENERATOR" /\ entry = "main"

\* the name starts with the two digits of n, tens first, and an underscore
HasTopicPrefix(e, n) ==
    /\ Len(e) >= 3
    /\ e[1] = Digit(n \div 10)
    /\ e[2] = Digit(n % 10)
    /\ e[3] = "_"

\* the entries of the script's directory in file system (d, f)
ScriptDirEntries(d, f) ==
    { k[Len(ScriptDir) + 1] : k \in { x \in d \cup DOMAIN f :
          Len(x) = Len(ScriptDir) + 1 /\ \A n \in 1..Len(ScriptDir) : x[n] = ScriptDir[n] } }

\* the pairs (i, level) for which some entry with i's prefix holds level/theory.md
CountedPairs(d, f) ==
    { pr \in (1..20) \X (1..3) :
        \E e \in ScriptDirEntries(d, f) :
            /\ HasTopicPrefix(e, pr[1])
            /\ (ScriptDir \o << e, levels[pr[2]], TheoryMd >>) \in (d \cup DOMAIN f) }

\* the theory.md files among the keys K
TheoryFiles(K) == { k \in K : Len(k) > 0 /\ Last(k) = TheoryMd }

\* a line has been printed
Printed(line) == \E n \in 1..Len(out) : out[n].line = line

\* the position of the first print of a line (0 when it was not printed)
FirstPrint(line) ==
    IF Printed(line) THEN CHOOSE n \in 1..Len(out) :
                             out[n].line = line /\ \A m \in 1..(n - 1) : out[m].line # line
    ELSE 0

----------------------------------------------------------------------------
(* C1                                                                      *)

\* the writer was called and has returned normally
WriterReturned == wpc = "idle" /\ wpath # << >> /\ exc = NoExc

\* C1: when write_file / create_file returns normally for a path that has a
\* directory component, the parent directory and all its ancestors exist, the
\* directories that existed before still do, and the file holds exactly the
\* content, whatever it held before
ThmC1 ==
    (WriterReturned /\ dirname(wpath) # << >>) =>
        /\ Prefixes(Resolve(cwd, dirname(wpath))) \subseteq dirs
        /\ dirs0 \subseteq dirs
        /\ Resolve(cwd, wpath) \in DOMAIN files
        /\ files[Resolve(cwd, wpath)] = wcontent

\* a call returned for a file that held something else before the run, and
\* another for a path whose directory did not exist
WitC1 ==
    /\ entry = "call"
    /\ WriterReturned
    /\ ncalls = 1
    /\ Resolve(cwd, wpath) \in DOMAIN files0
    /\ files0[Resolve(cwd, wpath)] # wcontent
    /\ files[Resolve(cwd, wpath)] = wcontent

----------------------------------------------------------------------------
(* C2                                                                      *)

\* C2: the number in FINAL_GENERATOR's status line is the number of pairs
\* (i, level), i in 1..20, for which at least one entry of the script's
\* directory with the prefix of i holds level/theory.md
ThmC2 ==
    IsFinal =>
        /\ \A n \in 1..Len(out) :
             out[n].line = "Status" =>
                 out[n].arg = << Cardinality(CountedPairs(dirs0, files0)) >>
        /\ pc \in { "status", "import" } =>
             existing = Cardinality(CountedPairs(dirs0, files0))

\* two entries share the prefix 01_: the first named has only basic/theory.md,
\* the other has all three; the scan is over and has counted three pairs
WitC2 ==
    /\ IsFinal
    /\ pc = "import"
    /\ existing = 3
    /\ (ScriptDir \o << TopicDir(TOPICS[1]), N("basic"), TheoryMd >>) \in DOMAIN files0
    /\ (ScriptDir \o << TopicDir(TOPICS[1]), N("intermediate"), TheoryMd >>) \notin DOMAIN files0
    /\ (ScriptDir \o << TopicDir(TOPICS[1]), N("intermediate") >>) \in dirs0
    /\ \A l \in 1..3 : (ScriptDir \o << << "0", "1", "_", "alt" >>, levels[l], TheoryMd >>) \in DOMAIN files0

----------------------------------------------------------------------------
(* C3                                                                      *)

\* the topic directory and the level a written key lies in
TopicLevelOf(k) == << k[Len(BaseKey) + 1], k[Len(BaseKey) + 2] >>

\* C3 as stated: every file a driver run writes is written by a call of the
\* writer, one call per topic and level
CexC3 ==
    entry = "main" =>
        /\ \A n \in 1..Len(wlog) : wlog[n].via = "writer"
        /\ \A a, b \in 1..Len(wlog) :
             (a # b /\ Len(wlog[a].key) >= Len(BaseKey) + 2 /\ Len(wlog[b].key) >= Len(BaseKey) + 2)
                 => TopicLevelOf(wlog[a].key) # TopicLevelOf(wlog[b].key)

\* C3, amended: every file the code of a driver writes is written once in a
\* run, by a call of the writer, except the claude.md files, which
\* create_all_topics writes with open() itself
ThmC3 ==
    entry = "main" =>
        /\ \A n \in 1..Len(wlog) :
             \/ wlog[n].via = "writer"
             \/ /\ script = "generate_comprehensive_theory"
                /\ Last(wlog[n].key) = N("claude.md")
        /\ \A a, b \in 1..Len(wlog) : a # b => wlog[a].key # wlog[b].key
        /\ script \in { "FINAL_GENERATOR", "GENERATE_ALL_THEORIES", "generate_all_theory_files" }
             => wlog = << >>

\* create_all_topics has run over TOPICS and written the twenty claude.md
WitC3 ==
    /\ script = "generate_comprehensive_theory"
    /\ topics = TOPICS
    /\ pc = "done"
    /\ status = "exit0"
    /\ Len(wlog) = 20
    /\ \A n \in 1..Len(wlog) : wlog[n].via = "open"

----------------------------------------------------------------------------
(* C4                                                                      *)

\* C4: when generate_all_content cannot be imported, a run of FINAL_GENERATOR
\* changes no file or directory and never prints GENERATION COMPLETE!; when it
\* has ended it has printed the banner, the two status lines and the fallback
\* message, in this order, and its exit status is 0
ThmC4 ==
    (IsFinal /\ ~importable) =>
        /\ dirs = dirs0
        /\ files = files0
        /\ wlog = << >>
        /\ mkcalls = {}
        /\ ~Printed("GENERATION COMPLETE!")
        /\ Printed("Creating content generation module...") =>
             /\ Printed("Status")
             /\ FirstPrint("Status") < FirstPrint("Creating content generation module...")
        /\ pc = "done" =>
             /\ status = "exit0"
             /\ Len(out) = 4
             /\ out[1].line = "banner"
             /\ out[2] = Msg("Status", << existing >>)
             /\ out[3] = Msg("Generating", << 60 - existing >>)
             /\ out[4].line = "Creating content generation module..."

\* the module is missing and the run has ended
WitC4 ==
    /\ IsFinal
    /\ ~importable
    /\ pc = "done"
    /\ exc.type = "ImportError"
    /\ Printed("Creating content generation module...")

----------------------------------------------------------------------------
(* C5                                                                      *)

\* C5 as stated: in every script a failure ends the run as a failure
CexC5 ==
    (pc = "done" /\ exc.type # "none") => status = "exit1"

\* C5, amended: a failure ends the run at once, and as a failure, except an
\* ImportError raised in FINAL_GENERATOR's main, which the __main__ block
\* catches and turns into exit status 0
ThmC5 ==
    /\ exc.type # "none" => pc \in { "done", "except" }
    /\ (pc = "done" /\ exc.type # "none") =>
          IF IsFinal /\ exc.type = "ImportError"
          THEN status = "exit0"
          ELSE status = "exit1"
    /\ pc = "except" => (IsFinal /\ exc.type = "ImportError")

\* a failed write has ended CREATE_FULL_THEORY
WitC5 ==
    /\ script = "CREATE_FULL_THEORY"
    /\ entry = "main"
    /\ pc = "done"
    /\ exc = [type |-> "OSError", at |-> "write"]
    /\ status = "exit1"

----------------------------------------------------------------------------
(* C6                                                                      *)

\* the flag is true, or the topic does not have it
FlagSet(t, flag) == (flag \notin DOMAIN t) \/ t[flag]

LevelExamples(t, level) == BaseKey \o << t.num \o << "_" >> \o t.name, N(level), N("examples") >>

\* create_all_topics has returned
TopicsCreated ==
    /\ script = "generate_comprehensive_theory"
    /\ entry = "main"
    /\ pc = "created" \/ (pc = "done" /\ status = "exit0")

\* C6: after create_all_topics, every topic has basic/examples, and
\* intermediate/examples (advanced/examples) was created if and only if
\* needs_intermediate (needs_advanced) is true or missing
ThmC6 ==
    TopicsCreated =>
        \A n \in 1..Len(topics) :
            /\ LevelExamples(topics[n], "basic") \in dirs
            /\ LevelExamples(topics[n], "basic") \in mkcalls
            /\ \A pr \in { << "intermediate", "needs_intermediate" >>,
                           << "advanced", "needs_advanced" >> } :
                 /\ LevelExamples(topics[n], pr[1]) \in mkcalls <=> FlagSet(topics[n], pr[2])
                 /\ FlagSet(topics[n], pr[2]) => LevelExamples(topics[n], pr[1]) \in dirs
                 /\ ~FlagSet(topics[n], pr[2]) =>
                       (LevelExamples(topics[n], pr[1]) \in dirs
                          <=> LevelExamples(topics[n], pr[1]) \in dirs0)

\* create_all_topics has returned on a list in which one topic lacks
\* needs_intermediate, so that the directory was made, and one topic has a
\* false flag, so that the directory was not made and does not exist
WitC6 ==
    /\ TopicsCreated
    /\ \E n \in 1..Len(topics) :
         /\ "needs_intermediate" \notin DOMAIN topics[n]
         /\ LevelExamples(topics[n], "intermediate") \in dirs \ dirs0
    /\ \E n \in 1..Len(topics) :
         /\ "needs_advanced" \in DOMAIN topics[n]
         /\ ~topics[n].needs_advanced
         /\ LevelExamples(topics[n], "advanced") \notin dirs

----------------------------------------------------------------------------
(* C7                                                                      *)

\* a theory file of topic n at level l exists somewhere
TheoryFileExists(n, l) ==
    \E k \in DOMAIN files :
        /\ Len(k) >= 3
        /\ k[Len(k)] = TheoryMd
        /\ k[Len(k) - 1] = levels[l]
        /\ HasTopicPrefix(k[Len(k) - 2], n)

\* C7 as stated: when GENERATE_ALL_THEORIES.py has finished, each of the 20
\* topics has a theory file at each of the 3 levels
CexC7 ==
    (script = "GENERATE_ALL_THEORIES" /\ entry = "main" /\ pc = "done") =>
        \A n \in 1..20, l \in 1..3 : TheoryFileExists(n, l)

----------------------------------------------------------------------------
(* C8                                                                      *)

\* C8 as stated: a completed run of FINAL_GENERATOR has created 60 - existing
\* theory files and has left the files that existed as they were
CexC8 ==
    (IsFinal /\ pc = "done" /\ status = "exit0") =>
        /\ Cardinality(TheoryFiles(DOMAIN files) \ TheoryFiles(DOMAIN files0)) = 60 - existing
        /\ \A k \in DOMAIN files0 : k \in DOMAIN files /\ files[k] = files0[k]

----------------------------------------------------------------------------
(* C9                                                                      *)

\* C9 as stated: once GENERATION COMPLETE! is printed, the script's directory
\* holds a theory file for each of the 20 topics at each of the 3 levels
CexC9 ==
    (IsFinal /\ Printed("GENERATION COMPLETE!")) =>
        Cardinality(CountedPairs(dirs, files)) = 60

----------------------------------------------------------------------------
(* C10                                                                     *)

\* C10 as stated: when CREATE_FULL_THEORY.py has finished, it has written a
\* theory file for every topic 01..20
CexC10 ==
    (script = "CREATE_FULL_THEORY" /\ entry = "main" /\ pc = "done" /\ status = "exit0") =>
        \A n \in 1..20 :
            \E m \in 1..Len(wlog) :
                /\ Last(wlog[m].key) = TheoryMd
                /\ \E x \in 1..Len(wlog[m].key) : HasTopicPrefix(wlog[m].key[x], n)

----------------------------------------------------------------------------
(* C11                                                                     *)

\* C11: the number of expected theory files is 60 wherever it appears: the
\* total generate_all_theory_files computes and prints, the constant of
\* FINAL_GENERATOR's status lines, the number of passes (i, level) the scan
\* of FINAL_GENERATOR has made when it is over, and 3 times the number of
\* entries of TOPICS
ThmC11 ==
    /\ total = 60
    /\ Expected = total
    /\ 3 * Len(TOPICS) = total
    /\ \A n \in 1..Len(out) :
         out[n].line = "Total theory files to create" => out[n].arg = << 60 >>
    /\ (IsFinal /\ pc \notin { "start", "chdir", "scan" }) =>
          /\ visited = total
          /\ visited = 3 * Len(TOPICS)
    /\ IsFinal =>
          \A n \in 1..Len(out) :
              out[n].line = "Generating" => out[n].arg[1] + existing = visited

\* the scan of FINAL_GENERATOR is over and the status lines are printed
WitC11 ==
    /\ IsFinal
    /\ pc = "import"
    /\ visited = 60
    /\ Printed("Status")
    /\ Printed("Generating")

----------------------------------------------------------------------------
(* C12                                                                     *)

\* the claude.md of a topic
ClaudeMd(t) == BaseKey \o << t.num \o << "_" >> \o t.name, N("claude.md") >>

\* the text create_all_topics writes into the claude.md of a topic
ClaudeText(t) == create_topic_content(t.num, t.name, t.title)

\* how many 'Created structure for' lines are printed
CreatedLines == Cardinality({ n \in 1..Len(out) : out[n].line = "Created structure for" })

\* C12: create_all_topics takes the topics in list order; the n-th file it
\* opens is the claude.md of the n-th topic, opened when the level
\* directories of that topic (basic, and the flagged ones) have been made and
\* no directory of a later topic has; the n-th line it prints names the n-th
\* topic and is printed when that claude.md is complete; when it has
\* returned every topic has its claude.md and its line, and 'All topic
\* structures created!' is printed only then
ThmC12 ==
    (script = "generate_comprehensive_theory" /\ entry = "main") =>
        /\ \A n \in 1..Len(wlog) :
             /\ n <= Len(topics)
             /\ wlog[n].key = ClaudeMd(topics[n])
             /\ LevelExamples(topics[n], "basic") \in mkcalls
             /\ FlagSet(topics[n], "needs_intermediate")
                   => LevelExamples(topics[n], "intermediate") \in mkcalls
             /\ FlagSet(topics[n], "needs_advanced")
                   => LevelExamples(topics[n], "advanced") \in mkcalls
        /\ \A n \in 1..Len(topics), l \in { "basic", "intermediate", "advanced" } :
             LevelExamples(topics[n], l) \in mkcalls => n <= Len(wlog) + 1
        /\ CreatedLines <= Len(wlog)
        /\ Len(wlog) <= CreatedLines + 1
        /\ \A n \in 1..Len(out) :
             out[n].line = "Created structure for" =>
                 /\ n <= Len(topics)
                 /\ out[n].arg = << topics[n].title >>
                 /\ ClaudeMd(topics[n]) \in DOMAIN files
                 /\ files[ClaudeMd(topics[n])] = ClaudeText(topics[n])
        /\ (TopicsCreated \/ Printed("All topic structures created!")) =>
             /\ CreatedLines = Len(topics)
             /\ \A n \in 1..Len(topics) :
                  /\ ClaudeMd(topics[n]) \in DOMAIN files
                  /\ files[ClaudeMd(topics[n])] = ClaudeText(topics[n])
        /\ Printed("All topic structures created!") =>
             Last(out).line = "All topic structures created!" /\ Len(out) = Len(topics) + 1

\* the run over the twenty entries of TOPICS has ended: twenty lines and the
\* closing line are printed
WitC12 ==
    /\ script = "generate_comprehensive_theory"
    /\ entry = "main"
    /\ topics = TOPICS
    /\ Printed("All topic structures created!")
    /\ CreatedLines = 20
    /\ \A n \in 1..20 : ClaudeMd(TOPICS[n]) \in DOMAIN files \ DOMAIN files0

----------------------------------------------------------------------------
(* C13                                                                     *)

\* the key of topic_path/level/theory.md for the arguments of a call
TheoryTarget(a) == Resolve(cwd, a[1] \o << a[2], N("theory.md") >>)

\* a step leaves every file but the one at key k as it is, and adds none
OnlyFileChanged(k) ==
    /\ DOMAIN files' \subseteq DOMAIN files \cup { k }
    /\ \A x \in DOMAIN files : x # k => (x \in DOMAIN files' /\ files'[x] = files[x])

\* C13: when create_theory_file(topic_path, level, content) has returned, the
\* file topic_path/level/theory.md holds exactly content, and no step of a
\* call creates or changes another file: none at another level of
\* topic_path, none of another topic
ThmC13 ==
    /\ [](  (script = "generate_theories" /\ entry = "call"
               /\ wpc = "idle" /\ wcalls # << >> /\ exc = NoExc)
            => /\ TheoryTarget(Last(wcalls)) \in DOMAIN files
               /\ files[TheoryTarget(Last(wcalls))] = Last(wcalls)[3] )
    /\ [][ (script = "generate_theories" /\ wcalls # << >>)
              => OnlyFileChanged(TheoryTarget(Last(wcalls))) ]_vars

\* a call for the intermediate level of topic a has returned where a's basic
\* and intermediate levels and topic b held theory files: the intermediate
\* one holds the content, the others what they held
WitC13 ==
    /\ script = "generate_theories" /\ entry = "call"
    /\ wpc = "idle" /\ exc = NoExc
    /\ ncalls = 1
    /\ wcalls[1][1] = << N("a") >>
    /\ wcalls[1][2] = N("intermediate")
    /\ (Work \o << N("b"), N("basic"), TheoryMd >>) \in DOMAIN files0
    /\ files[Work \o << N("a"), N("intermediate"), TheoryMd >>] = wcalls[1][3]
    /\ files[Work \o << N("a"), N("intermediate"), TheoryMd >>] # Old
    /\ files[Work \o << N("a"), N("basic"), TheoryMd >>] = Old
    /\ files[Work \o << N("b"), N("basic"), TheoryMd >>] = Old

----------------------------------------------------------------------------
(* C14                                                                     *)

\* a run of direct calls of write_file / create_file
WriterCalls == entry = "call" /\ script \in WriterModules

\* the file the n-th call was made for
CallKey(n) == Resolve(cwd, wcalls[n][1])

\* no call after the n-th was made for the same file
MostRecent(n) == \A m \in (n + 1)..Len(wcalls) : CallKey(m) # CallKey(n)

\* C14: when all calls of write_file made so far have returned, every file
\* a call was made for holds exactly the content of the most recent call for
\* it, and no step of a call for path p creates or changes a file other than
\* the one at p
ThmC14 ==
    /\ []( (WriterCalls /\ wpc = "idle" /\ exc = NoExc) =>
              \A n \in 1..Len(wcalls) :
                  MostRecent(n) =>
                      /\ CallKey(n) \in DOMAIN files
                      /\ files[CallKey(n)] = wcalls[n][2] )
    /\ [][ (WriterCalls /\ wcalls # << >>) => OnlyFileChanged(CallKey(Len(wcalls))) ]_vars

\* two calls have returned that were made for the same file, by a relative
\* and by an absolute path, with different contents; the file existed before
\* and holds the content of the second call
WitC14 ==
    /\ WriterCalls
    /\ wpc = "idle" /\ exc = NoExc
    /\ Len(wcalls) = 2
    /\ wcalls[1][1] # wcalls[2][1]
    /\ CallKey(1) = CallKey(2)
    /\ wcalls[1][2] # wcalls[2][2]
    /\ CallKey(1) \in DOMAIN files0
    /\ files[CallKey(2)] = wcalls[2][2]

----------------------------------------------------------------------------
(* C15                                                                     *)

\* every call made so far had the arguments of the first
SameCalls == \A n \in 1..Len(wcalls) : wcalls[n] = wcalls[1]

\* a run of generate_comprehensive_theory.py
TopicsRun == script = "generate_comprehensive_theory" /\ entry = "main"

\* a theory.md, or a file below a directory named examples
TheoryOrExample(k) ==
    /\ Len(k) > 0
    /\ \/ k[Len(k)] = N("theory.md")
       \/ \E n \in 1..(Len(k) - 1) : k[n] = N("examples")

\* C15: after any number of returned calls of write_file with the same path
\* and content the file system is the one a single such call leaves: the
\* one before the calls, with the ancestors of the path as directories and
\* the content in the file.  A run of create_all_topics on the file system
\* a completed run has left raises no error over what exists, and once
\* completed has left the file system as it found it; no run of
\* create_all_topics removes or changes a theory.md or a file under examples/
ThmC15 ==
    /\ (WriterCalls /\ wpc = "idle" /\ exc = NoExc /\ wcalls # << >> /\ SameCalls) =>
          /\ dirs = dirs0 \cup { SubSeq(CallKey(1), 1, n) : n \in 0..(Len(CallKey(1)) - 1) }
          /\ DOMAIN files = DOMAIN files0 \cup { CallKey(1) }
          /\ files[CallKey(1)] = wcalls[1][2]
          /\ \A k \in DOMAIN files0 : k # CallKey(1) => files[k] = files0[k]
    /\ (TopicsRun /\ nruns > 1) =>
          /\ exc.type \in { "none", "OSError" }
          /\ (pc = "done" /\ status = "exit0") => (dirs = dirs0 /\ files = files0)
    /\ TopicsRun =>
          \A k \in DOMAIN files0 :
              TheoryOrExample(k) => (k \in DOMAIN files /\ files[k] = files0[k])

\* the second run of create_all_topics over TOPICS has completed where topic
\* 01 holds a theory.md and an example file
WitC15 ==
    /\ TopicsRun
    /\ nruns = 2
    /\ pc = "done" /\ status = "exit0"
    /\ topics = TOPICS
    /\ Len(wlog) = 20
    /\ (BaseKey \o << TopicDir(TOPICS[1]), N("basic"), TheoryMd >>) \in DOMAIN files
    /\ (BaseKey \o << TopicDir(TOPICS[1]), N("basic"), N("examples"), N("hello.go") >>) \in DOMAIN files

----------------------------------------------------------------------------
(* C16                                                                     *)

\* C16: in FINAL_GENERATOR.main, whatever the script's directory holds, a
\* pass of the scan adds at most one to existing, so that existing never
\* exceeds the number of passes made and 0 <= existing <= 60 after the scan;
\* the remaining count printed is 60 - existing and is not negative
ThmC16 ==
    IsFinal =>
        /\ 0 <= existing
        /\ existing <= visited
        /\ visited <= 60
        /\ existing <= 60
        /\ \A n \in 1..Len(out) :
             /\ out[n].line = "Status" =>
                   (0 <= out[n].arg[1] /\ out[n].arg[1] <= 60)
             /\ out[n].line = "Generating" =>
                   /\ n > 1
                   /\ out[n - 1].line = "Status"
                   /\ out[n].arg[1] >= 0
                   /\ out[n - 1].arg[1] + out[n].arg[1] = 60

\* the scan is over where the directory held a directory with a prefix past
\* 20 and a second directory with the prefix 01_, both with all three theory
\* files: three pairs are counted and 57 reported as remaining
WitC16 ==
    /\ IsFinal
    /\ pc = "import"
    /\ \A l \in 1..3 :
         /\ (ScriptDir \o << << "2", "1", "_", "extra" >>, levels[l], TheoryMd >>) \in DOMAIN files0
         /\ (ScriptDir \o << << "0", "1", "_", "alt" >>, levels[l], TheoryMd >>) \in DOMAIN files0
    /\ existing = 3
    /\ Last(out) = Msg("Generating", << 57 >>)

----------------------------------------------------------------------------
(* C17                                                                     *)

\* the calls made so far that have printed their progress message
Messages == { n \in 1..Len(out) : out[n].line \in { "progress", "Created" } }

\* the parent directory of the file of the latest call
CallParent == SubSeq(CallKey(Len(wcalls)), 1, Len(CallKey(Len(wcalls))) - 1)

\* C17: in a call of write_file the directories are made first, then the
\* file is opened and written, then the message is printed: the message of a
\* call is printed when its file holds the whole content and not before; a
\* call whose directory creation fails has not opened its file and no step
\* of it has changed a file; a call that fails, at whatever step, has
\* printed no message
ThmC17 ==
    WriterCalls =>
        /\ Len(out) = Cardinality(Messages)
        /\ wpc = "idle" => Len(out) = (IF exc = NoExc THEN Len(wcalls) ELSE Len(wcalls) - 1)
        /\ wpc # "idle" => Len(out) = Len(wcalls) - 1
        /\ wpc = "makedirs" => Len(wlog) = Len(wcalls) - 1
        /\ wpc \in { "open", "write", "print" } => CallParent \in dirs
        /\ wpc = "open" => Len(wlog) = Len(wcalls) - 1
        /\ wpc \in { "write", "print" } =>
              /\ Len(wlog) = Len(wcalls)
              /\ Last(wlog).key = CallKey(Len(wcalls))
        /\ wpc = "write" => files[CallKey(Len(wcalls))] = << >>
        /\ wpc = "print" => files[CallKey(Len(wcalls))] = Last(wcalls)[2]
        /\ \A n \in 1..Len(out) :
              /\ n <= Len(wcalls)
              /\ script \in { "CREATE_FULL_THEORY", "generate_all_theory_files" }
                    => out[n].arg = << wcalls[n][1] >>
              /\ (\A m \in (n + 1)..Len(wlog) : wlog[m].key # CallKey(n))
                    => files[CallKey(n)] = wcalls[n][2]
        /\ exc.at = "makedirs" =>
              /\ Len(wlog) = Len(wcalls) - 1
              /\ wcalls # << >>
              /\ Len(wcalls) = 1 => files = files0
        /\ exc.at \in { "open", "write" } => Len(out) = Len(wcalls) - 1

\* the second call of a run has failed in its write after the first call
\* returned: one message is printed, the file of the second call is left
\* with less than its content
WitC17 ==
    /\ WriterCalls
    /\ exc = [type |-> "OSError", at |-> "write"]
    /\ Len(wcalls) = 2
    /\ Len(out) = 1
    /\ Len(wlog) = 2
    /\ files[CallKey(2)] # wcalls[2][2]

----------------------------------------------------------------------------
(* C18                                                                     *)

\* the two-digit string of n, for n below 100
TwoDigits(n) == << Digit(n \div 10), Digit(n % 10) >>

\* the directory name of a topic
DirName(t) == t.num \o << "_" >> \o t.name

\* the topic numbers of the scan that a name matches
ScanNumbers(e) == { n \in 1..20 : HasTopicPrefix(e, n) }

\* C18: TOPICS has 20 entries, the n-th with num the two-digit string of n;
\* the names, hence the directory names and the claude.md paths, are pairwise
\* distinct; every directory name matches the topic number of its entry in
\* the scan of FINAL_GENERATOR and no other; and in a run of
\* create_all_topics no two files opened are the same and every directory
\* made lies in a topic directory that matches exactly one number of the scan
ThmC18 ==
    /\ Len(TOPICS) = 20
    /\ \A n \in 1..Len(TOPICS) : TOPICS[n].num = TwoDigits(n)
    /\ \A a, b \in 1..Len(TOPICS) :
         a # b => /\ TOPICS[a].name # TOPICS[b].name
                  /\ DirName(TOPICS[a]) # DirName(TOPICS[b])
                  /\ ClaudeMd(TOPICS[a]) # ClaudeMd(TOPICS[b])
    /\ \A n \in 1..Len(TOPICS) : ScanNumbers(DirName(TOPICS[n])) = { n }
    /\ TopicsRun =>
         /\ \A a, b \in 1..Len(wlog) : a # b => wlog[a].key # wlog[b].key
         /\ \A k \in mkcalls :
              /\ Len(k) > Len(BaseKey)
              /\ Cardinality(ScanNumbers(k[Len(BaseKey) + 1])) = 1
              /\ \E n \in 1..Len(topics) :
                   /\ k[Len(BaseKey) + 1] = DirName(topics[n])
                   /\ topics[n].num = TwoDigits(n)
                   /\ ScanNumbers(k[Len(BaseKey) + 1]) = { n }

\* create_all_topics has returned from its run over TOPICS: sixty level
\* directories made, twenty claude.md opened
WitC18 ==
    /\ TopicsRun
    /\ topics = TOPICS
    /\ pc = "created"
    /\ Cardinality(mkcalls) = 60
    /\ Len(wlog) = 20
====
